---- MODULE Spec2Model ----
(***************************************************************************)
(* A model of the document hidden-data detection server (src/server.ts):   *)
(* the entropy and base64 scanners, the DOCX and PDF analyzers, the        *)
(* fallback risk scorer and the /api/analyze request handler.              *)
(*                                                                         *)
(* Numbers.  JavaScript numbers are modelled exactly: integers as TLA+     *)
(* integers, fractions as reduced rationals [num, den].  Shannon entropy   *)
(* is computed in thousandths of a bit from a table of log2; toFixed(2)    *)
(* rounds it to hundredths.  Floating-point rounding error is not          *)
(* modelled.                                                               *)
(* Text.  Strings are TLA+ strings; the regular expressions of the source  *)
(* are matched character by character.                                     *)
(***************************************************************************)
EXTENDS Integers, Sequences, FiniteSets, TLC

(***************************************************************************)
(* Bounds of the model.                                                    *)
(***************************************************************************)
NumReq == 2        \* concurrent requests to /api/analyze
MaxRaw == 3        \* pieces a PDF byte buffer is assembled from
MaxEntries == 2    \* entries of a DOCX package, in every order
MaxChunks == 3     \* pieces a text given to findBase64Blocks is assembled from
Calls == 2         \* successive calls of findBase64Blocks on one text

(***************************************************************************)
(* Exact rational arithmetic (JavaScript numbers).                         *)
(***************************************************************************)
Abs(n) == IF n < 0 THEN -n ELSE n

RECURSIVE GCD(_, _)
GCD(a, b) == IF b = 0 THEN a ELSE GCD(b, a % b)

Rat(n, d) ==
    LET g == GCD(Abs(n), d)
    IN  [num |-> n \div g, den |-> d \div g]

RInt(n) == [num |-> n, den |-> 1]
RAdd(a, b) == Rat(a.num * b.den + b.num * a.den, a.den * b.den)
RMul(a, b) == Rat(a.num * b.num, a.den * b.den)
RLess(a, b) == a.num * b.den < b.num * a.den
RLeq(a, b) == a.num * b.den <= b.num * a.den
\* Math.min with the bound forgotten.
RMinUnbounded(a, b) == a

RMin(a, b) == IF RLess(b, a) THEN b ELSE a
RMax(a, b) == IF RLess(a, b) THEN b ELSE a

(***************************************************************************)
(* Strings.                                                                *)
(***************************************************************************)
CharAt(s, i) == SubSeq(s, i, i)

\* s.startsWith(p) at position i (1-based): the literal p occurs at i.
LitAt(s, i, p) == i + Len(p) - 1 <= Len(s) /\ SubSeq(s, i, i + Len(p) - 1) = p

startsWith(s, p) == LitAt(s, 1, p)

\* s.includes(p)
includes(s, p) == \E i \in 1..Len(s) : LitAt(s, i, p)

RECURSIVE Repeat(_, _)
Repeat(s, n) ==
    IF n = 0 THEN ""
    ELSE LET half == Repeat(s, n \div 2)
         IN  IF n % 2 = 0 THEN half \o half ELSE half \o half \o s

RECURSIVE Join(_)
Join(pieces) == IF pieces = <<>> THEN "" ELSE Head(pieces) \o Join(Tail(pieces))

Min(S) == CHOOSE x \in S : \A y \in S : x <= y

\* (s.match(/p1|p2|.../g) || []).length for literal alternatives: the matches
\* are found left to right, each search resuming after the previous match.
RECURSIVE CountFrom(_, _, _)
CountFrom(s, i, lits) ==
    LET starts == {j \in i..Len(s) : \E p \in lits : LitAt(s, j, p)}
        j == Min(starts)
        p == CHOOSE q \in lits : LitAt(s, j, q)
    IN  IF starts = {} THEN 0
        ELSE 1 + CountFrom(s, j + Len(p), lits)

CountMatches(s, lits) == CountFrom(s, 1, lits)

(***************************************************************************)
(* calculateEntropy: Shannon entropy of a string, in thousandths of a bit. *)
(***************************************************************************)
Log2Milli ==
  << 0, 1000, 1585, 2000, 2322, 2585, 2807, 3000,
     3170, 3322, 3459, 3585, 3700, 3807, 3907, 4000,
     4087, 4170, 4248, 4322, 4392, 4459, 4524, 4585,
     4644, 4700, 4755, 4807, 4858, 4907, 4954, 5000,
     5044, 5087, 5129, 5170, 5209, 5248, 5285, 5322,
     5358, 5392, 5426, 5459, 5492, 5524, 5555, 5585,
     5615, 5644, 5672, 5700, 5728, 5755, 5781, 5807,
     5833, 5858, 5883, 5907, 5931, 5954, 5977, 6000,
     6022, 6044, 6066, 6087, 6109, 6129, 6150, 6170,
     6190, 6209, 6229, 6248, 6267, 6285, 6304, 6322,
     6340, 6358, 6375, 6392, 6409, 6426, 6443, 6459,
     6476, 6492, 6508, 6524, 6539, 6555, 6570, 6585,
     6600, 6615, 6629, 6644, 6658, 6672, 6687, 6700,
     6714, 6728, 6741, 6755, 6768, 6781, 6794, 6807,
     6820, 6833, 6845, 6858, 6870, 6883, 6895, 6907,
     6919, 6931, 6943, 6954, 6966, 6977, 6989, 7000,
     7011, 7022, 7033, 7044, 7055, 7066, 7077, 7087,
     7098, 7109, 7119, 7129, 7140, 7150, 7160, 7170,
     7180, 7190, 7200, 7209, 7219, 7229, 7238, 7248,
     7257, 7267, 7276, 7285, 7295, 7304, 7313, 7322,
     7331, 7340, 7349, 7358, 7366, 7375, 7384, 7392,
     7401, 7409, 7418, 7426, 7435, 7443, 7451, 7459,
     7468, 7476, 7484, 7492, 7500, 7508, 7516, 7524,
     7531, 7539, 7547, 7555, 7562, 7570, 7577, 7585 >>

RECURSIVE SumOver(_, _)
SumOver(S, f) ==
    IF S = {} THEN 0
    ELSE LET x == CHOOSE y \in S : TRUE
         IN  f[x] + SumOver(S \ {x}, f)

calculateEntropy(str) ==
    LET len == Len(str)
        chars == {CharAt(str, i) : i \in 1..len}
        frequencies == [c \in chars |-> Cardinality({i \in 1..len : CharAt(str, i) = c})]
        \* -sum p*log2(p) = log2(len) - (sum f*log2(f)) / len
        weighted == [c \in chars |-> frequencies[c] * Log2Milli[frequencies[c]]]
    IN  IF len = 0 THEN 0
        ELSE (len * Log2Milli[len] - SumOver(chars, weighted)) \div len

(***************************************************************************)
(* findBase64Blocks: the regular expression                                *)
(*   /(?:[A-Za-z0-9+/]{4}){10,}(?:[A-Za-z0-9+/]{2}==|[A-Za-z0-9+/]{3}=)?/g *)
(* run over the text with a fresh lastIndex on every call.                 *)
(***************************************************************************)
Base64Alphabet ==
    { "A", "B", "C", "D", "E", "F", "G", "H", "I", "J", "K", "L", "M",
      "N", "O", "P", "Q", "R", "S", "T", "U", "V", "W", "X", "Y", "Z",
      "a", "b", "c", "d", "e", "f", "g", "h", "i", "j", "k", "l", "m",
      "n", "o", "p", "q", "r", "s", "t", "u", "v", "w", "x", "y", "z",
      "0", "1", "2", "3", "4", "5", "6", "7", "8", "9", "+", "/" }

MinGroups == 10
GroupLen == 4

\* Number of consecutive alphabet characters of text starting at i.
RunLen(text, i) ==
    LET stops == {j \in i..Len(text) : CharAt(text, j) \notin Base64Alphabet}
    IN  IF stops = {} THEN Len(text) - i + 1 ELSE Min(stops) - i

\* Length of the match of the expression anchored at i, 0 when there is none.
\* The greedy group repetition takes every whole group of 4 of the run; the
\* optional padding is taken when the rest of the run and the "=" signs fit.
Base64MatchLen(text, i) ==
    LET run == RunLen(text, i)
        groups == run \div GroupLen
        body == groups * GroupLen
        rest == run - body
        padded == \/ rest = 2 /\ LitAt(text, i + run, "==")
                  \/ rest = 3 /\ LitAt(text, i + run, "=")
    IN  IF groups < MinGroups THEN 0
        ELSE IF padded THEN body + 4
        ELSE body

\* The while loop over base64Regex.exec(text), from lastIndex i: exec finds
\* the leftmost position at or after lastIndex where the expression matches.
RECURSIVE Base64Scan(_, _, _)
Base64Scan(text, i, acc) ==
    LET inRun(j) == CharAt(text, j) \in Base64Alphabet
        \* A match can only begin where a run of alphabet characters is
        \* entered: further into the same run the run is shorter.
        starts == {j \in i..Len(text) :
                      inRun(j) /\ (j = i \/ ~inRun(j - 1))
                      /\ Base64MatchLen(text, j) > 0}
        j == Min(starts)
        m == Base64MatchLen(text, j)
        entropy == calculateEntropy(SubSeq(text, j, j + m - 1))
    IN  IF starts = {} THEN acc
        ELSE Base64Scan(text, j + m,
               [count |-> acc.count + 1,
                size |-> acc.size + m,
                maxEntropy |-> IF entropy > acc.maxEntropy
                               THEN entropy ELSE acc.maxEntropy])

NoBlocks == [count |-> 0, size |-> 0, maxEntropy |-> 0]

findBase64Blocks(text) == Base64Scan(text, 1, NoBlocks)

\* Number.prototype.toFixed(2) of an entropy: hundredths of a bit, rounded.
toFixed2(milli) == (milli + 5) \div 10

\* parseFloat of a toFixed(2) string.
parseFloat(centi) == Rat(centi, 100)

(***************************************************************************)
(* The regular expressions of the XML signal extractor.                    *)
(***************************************************************************)
LineTerminators == { "\n", "\r" }

\* No character of s[a..b] is a line terminator ("." does not match those).
NoNewline(s, a, b) == \A i \in a..b : CharAt(s, i) \notin LineTerminators

\* Length of the match of /open.*?mid(.*?)close/ anchored at i, 0 when there
\* is none: both lazy stars stop at the first place the rest can match.
LazyMatchLen(s, i, open, mid, close) ==
    LET p == i + Len(open)
        Ks(j) == {k \in (j + Len(mid))..Len(s) :
                     LitAt(s, k, close) /\ NoNewline(s, j + Len(mid), k - 1)}
        Js == {j \in p..Len(s) :
                  LitAt(s, j, mid) /\ NoNewline(s, p, j - 1) /\ Ks(j) # {}}
    IN  IF ~LitAt(s, i, open) \/ Js = {} THEN 0
        ELSE Min(Ks(Min(Js))) + Len(close) - i

\* Sum of m.length over s.match(/open.*?mid(.*?)close/g), and their number.
RECURSIVE LazyScan(_, _, _, _, _, _)
LazyScan(s, i, open, mid, close, acc) ==
    LET starts == {j \in i..Len(s) : LazyMatchLen(s, j, open, mid, close) > 0}
        j == Min(starts)
        m == LazyMatchLen(s, j, open, mid, close)
    IN  IF starts = {} THEN acc
        ELSE LazyScan(s, j + m, open, mid, close,
                      [count |-> acc.count + 1, size |-> acc.size + m])

VanishMatches(content) ==
    LazyScan(content, 1, "<w:vanish/>", "<w:t>", "</w:t>", [count |-> 0, size |-> 0])

WhiteTextMatches(content) ==
    LazyScan(content, 1, "<w:color w:val=\"FFFFFF\"", "<w:t>", "</w:t>",
             [count |-> 0, size |-> 0])

\* (content.match(/<[^>]+>/g) || []).length
\* Length of the match of /<[^>]+>/ anchored at i, 0 when there is none.
TagMatchLen(s, i) ==
    LET closers == {k \in (i + 1)..Len(s) : CharAt(s, k) = ">"}
    IN  IF CharAt(s, i) = "<" /\ closers # {} /\ Min(closers) >= i + 2
        THEN Min(closers) - i + 1
        ELSE 0

RECURSIVE TagCountFrom(_, _)
TagCountFrom(s, i) ==
    LET starts == {j \in i..Len(s) : TagMatchLen(s, j) > 0}
        j == Min(starts)
    IN  IF starts = {} THEN 0
        ELSE 1 + TagCountFrom(s, j + TagMatchLen(s, j))

TagCount(s) == TagCountFrom(s, 1)

(***************************************************************************)
(* Findings.  A finding is its message and the number interpolated into    *)
(* it (0 for the fixed messages).                                          *)
(***************************************************************************)
Finding(msg, n) == [msg |-> msg, n |-> n]

FEmbedded == Finding("Embedded objects/files found", 0)
FComments == Finding("Significant volume of comments detected", 0)
FRevisions(n) == Finding("Track changes/revisions found (n edits)", n)
FVanish == Finding("Hidden text (vanish tag) detected", 0)
FWhite == Finding("White-colored text detected", 0)
FBase64(n) == Finding("High entropy encoded blocks detected (n blocks)", n)
FMetadata == Finding("Metadata anomaly detected (excessive fields)", 0)
FAnnots == Finding("Annotations/Comments detected", 0)
FInvisible == Finding("Invisible text rendering detected", 0)

\* findings.includes(f)
Contains(findings, f) == \E i \in 1..Len(findings) : findings[i] = f

\* findings.push(f) when cond holds
PushIf(findings, cond, f) == IF cond THEN Append(findings, f) ELSE findings

(***************************************************************************)
(* The accumulators of one scan (the let declarations of analyzeDocx and   *)
(* analyzePdf).                                                            *)
(***************************************************************************)
NewScan ==
    [hiddenTextSize |-> 0,
     embeddedFileSize |-> 0,
     commentsSize |-> 0,
     base64Blocks |-> NoBlocks,
     metadataScore |-> 0,
     embeddedObjectCount |-> 0,
     revisionHistoryCount |-> 0,
     metadataFieldsExtracted |-> 0,
     findings |-> <<>>]

CommentsThreshold == 500
MetadataBonus == 10

(***************************************************************************)
(* analyzeDocx: the body of zipEntries.forEach for one entry.  An entry is *)
(* [entryName, size, data]: its name, header.size and its decoded text.    *)
(***************************************************************************)
\* The embedded size assigned instead of accumulated.
DocxEmbeddedAssigned(acc, entry) ==
    IF startsWith(entry.entryName, "word/embeddings/")
       \/ startsWith(entry.entryName, "word/media/")
    THEN [acc EXCEPT
            !.embeddedFileSize = entry.size,
            !.embeddedObjectCount = @ + 1,
            !.findings = PushIf(@, ~Contains(@, FEmbedded), FEmbedded)]
    ELSE acc

\* The finding pushed for every embedded entry, without the includes test.
DocxEmbeddedEveryTime(acc, entry) ==
    IF startsWith(entry.entryName, "word/embeddings/")
       \/ startsWith(entry.entryName, "word/media/")
    THEN [acc EXCEPT
            !.embeddedFileSize = @ + entry.size,
            !.embeddedObjectCount = @ + 1,
            !.findings = Append(@, FEmbedded)]
    ELSE acc

DocxEmbedded(acc, entry) ==
    IF startsWith(entry.entryName, "word/embeddings/")
       \/ startsWith(entry.entryName, "word/media/")
    THEN [acc EXCEPT
            !.embeddedFileSize = @ + entry.size,
            !.embeddedObjectCount = @ + 1,
            !.findings = PushIf(@, ~Contains(@, FEmbedded), FEmbedded)]
    ELSE acc

\* The comments size assigned instead of accumulated.
DocxCommentsAssigned(acc, entry) ==
    IF entry.entryName = "word/comments.xml"
    THEN LET content == entry.data
         IN  [acc EXCEPT
                !.commentsSize = Len(content),
                !.findings = PushIf(@, Len(content) > CommentsThreshold, FComments)]
    ELSE acc

\* The threshold compared with >= instead of >.
DocxCommentsInclusive(acc, entry) ==
    IF entry.entryName = "word/comments.xml"
    THEN LET content == entry.data
         IN  [acc EXCEPT
                !.commentsSize = @ + Len(content),
                !.findings = PushIf(@, Len(content) >= CommentsThreshold, FComments)]
    ELSE acc

DocxComments(acc, entry) ==
    IF entry.entryName = "word/comments.xml"
    THEN LET content == entry.data
         IN  [acc EXCEPT
                !.commentsSize = @ + Len(content),
                !.findings = PushIf(@, Len(content) > CommentsThreshold, FComments)]
    ELSE acc

DocxBody(acc, entry) ==
    IF entry.entryName = "word/document.xml"
    THEN LET content == entry.data
             revisions == CountMatches(content, {"<w:ins"})
                          + CountMatches(content, {"<w:del"})
             hiddenMatches == VanishMatches(content)
             whiteTextMatches == WhiteTextMatches(content)
             b64 == findBase64Blocks(content)
             f1 == PushIf(acc.findings, revisions > 0, FRevisions(revisions))
             f2 == PushIf(f1, hiddenMatches.count > 0, FVanish)
             f3 == PushIf(f2, whiteTextMatches.count > 0, FWhite)
         IN  [acc EXCEPT
                !.revisionHistoryCount = @ + revisions,
                !.hiddenTextSize = @ + hiddenMatches.size + whiteTextMatches.size,
                !.findings = f3,
                !.base64Blocks =
                    [count |-> @.count + b64.count,
                     size |-> @.size + b64.size,
                     maxEntropy |-> IF b64.maxEntropy > @.maxEntropy
                                    THEN b64.maxEntropy ELSE @.maxEntropy]]
    ELSE acc

DocxMetadata(acc, entry) ==
    IF entry.entryName = "docProps/core.xml" \/ entry.entryName = "docProps/app.xml"
    THEN LET content == entry.data
         IN  [acc EXCEPT
                !.metadataFieldsExtracted = @ + TagCount(content),
                !.metadataScore =
                    IF includes(content, "creator") \/ includes(content, "lastModifiedBy")
                    THEN @ + MetadataBonus ELSE @]
    ELSE acc

DocxEntry(acc, entry) ==
    DocxMetadata(DocxBody(DocxComments(DocxEmbedded(acc, entry), entry), entry), entry)

\* The metadata score added into the hidden bytes.
DocxResultWithMetadata(acc, fileSize) ==
    LET findings == PushIf(acc.findings, acc.base64Blocks.count > 0,
                           FBase64(acc.base64Blocks.count))
        hiddenBytes == acc.hiddenTextSize + acc.embeddedFileSize
                       + acc.base64Blocks.size + acc.commentsSize
                       + acc.metadataScore
        hiddenRatio == RMin(RMul(Rat(hiddenBytes, fileSize), RInt(100)), RInt(100))
    IN  [hiddenBytes |-> hiddenBytes,
         hiddenRatio |-> hiddenRatio,
         breakdown |->
            [hidden_text |-> acc.hiddenTextSize,
             embedded_files |-> acc.embeddedFileSize,
             base64_blocks |-> acc.base64Blocks.size,
             metadata_score |-> acc.metadataScore,
             comments_size |-> acc.commentsSize],
         findings |-> findings,
         details |->
            [entropyScore |-> toFixed2(acc.base64Blocks.maxEntropy),
             base64BlockCount |-> acc.base64Blocks.count,
             embeddedObjectCount |-> acc.embeddedObjectCount,
             metadataFieldsExtracted |-> acc.metadataFieldsExtracted,
             revisionHistoryCount |-> acc.revisionHistoryCount]]

\* The statements after the forEach and the returned object.
DocxResult(acc, fileSize) ==
    LET findings == PushIf(acc.findings, acc.base64Blocks.count > 0,
                           FBase64(acc.base64Blocks.count))
        hiddenBytes == acc.hiddenTextSize + acc.embeddedFileSize
                       + acc.base64Blocks.size + acc.commentsSize
        hiddenRatio == RMin(RMul(Rat(hiddenBytes, fileSize), RInt(100)), RInt(100))
    IN  [hiddenBytes |-> hiddenBytes,
         hiddenRatio |-> hiddenRatio,
         breakdown |->
            [hidden_text |-> acc.hiddenTextSize,
             embedded_files |-> acc.embeddedFileSize,
             base64_blocks |-> acc.base64Blocks.size,
             metadata_score |-> acc.metadataScore,
             comments_size |-> acc.commentsSize],
         findings |-> findings,
         details |->
            [entropyScore |-> toFixed2(acc.base64Blocks.maxEntropy),
             base64BlockCount |-> acc.base64Blocks.count,
             embeddedObjectCount |-> acc.embeddedObjectCount,
             metadataFieldsExtracted |-> acc.metadataFieldsExtracted,
             revisionHistoryCount |-> acc.revisionHistoryCount]]

RECURSIVE DocxFold(_, _)
DocxFold(acc, zipEntries) ==
    IF zipEntries = <<>> THEN acc
    ELSE DocxFold(DocxEntry(acc, Head(zipEntries)), Tail(zipEntries))

\* analyzeDocx on an archive that opened, its entries in enumeration order.
analyzeDocx(zipEntries, fileSize) == DocxResult(DocxFold(NewScan, zipEntries), fileSize)

(***************************************************************************)
(* analyzePdf, statement by statement after the text extraction.  data is  *)
(* what pdfParse returned: [text, info], info being <<>> when absent and   *)
(* <<dict>> otherwise, dict a function from keys to string values.         *)
(***************************************************************************)
EmbeddedEstimate == 1024
AnnotEstimate == 256
InvisibleEstimate == 50
ExcessiveFields == 10
ExcessiveBonus == 20

\* Object.keys(data.info || {}).length
InfoKeyCount(data) ==
    IF data.info = <<>> THEN 0 ELSE Cardinality(DOMAIN data.info[1])

\* data.info && (data.info.Creator || data.info.Producer): a key counts when
\* it is present with a non-empty value.
Truthy(dict, key) == key \in DOMAIN dict /\ dict[key] # ""

HasCreatorOrProducer(data) ==
    data.info # <<>>
    /\ (Truthy(data.info[1], "Creator") \/ Truthy(data.info[1], "Producer"))

PdfStart(data) == [NewScan EXCEPT !.metadataFieldsExtracted = InfoKeyCount(data)]

PdfBase64(acc, data) ==
    LET b64 == findBase64Blocks(data.text)
    IN  [acc EXCEPT
           !.base64Blocks = b64,
           !.findings = PushIf(@, b64.count > 0, FBase64(b64.count))]

PdfMetadata(acc, data) ==
    LET score1 == IF HasCreatorOrProducer(data)
                  THEN acc.metadataScore + MetadataBonus ELSE acc.metadataScore
        excessive == acc.metadataFieldsExtracted > ExcessiveFields
    IN  [acc EXCEPT
           !.findings = PushIf(@, excessive, FMetadata),
           !.metadataScore = IF excessive THEN score1 + ExcessiveBonus ELSE score1]

\* The name-tree marker left out of the expression.
PdfEmbeddedFilesOnly(acc, rawString) ==
    LET embeddedMatches == CountMatches(rawString, {"/EmbeddedFiles"})
    IN  IF embeddedMatches > 0
        THEN [acc EXCEPT
                !.embeddedObjectCount = embeddedMatches,
                !.embeddedFileSize = embeddedMatches * EmbeddedEstimate,
                !.findings = Append(@, FEmbedded)]
        ELSE acc

PdfEmbedded(acc, rawString) ==
    LET embeddedMatches == CountMatches(rawString, {"/EmbeddedFiles", "/Names"})
    IN  IF embeddedMatches > 0
        THEN [acc EXCEPT
                !.embeddedObjectCount = embeddedMatches,
                !.embeddedFileSize = embeddedMatches * EmbeddedEstimate,
                !.findings = Append(@, FEmbedded)]
        ELSE acc

PdfAnnots(acc, rawString) ==
    LET annotMatches == CountMatches(rawString, {"/Annots"})
    IN  IF annotMatches > 0
        THEN [acc EXCEPT
                !.commentsSize = annotMatches * AnnotEstimate,
                !.findings = Append(@, FAnnots)]
        ELSE acc

PdfInvisible(acc, rawString) ==
    LET trMatches == CountMatches(rawString, {"3 Tr"})
    IN  IF trMatches > 0
        THEN [acc EXCEPT
                !.hiddenTextSize = trMatches * InvisibleEstimate,
                !.findings = Append(@, FInvisible)]
        ELSE acc

PdfResult(acc, fileSize) ==
    LET hiddenBytes == acc.hiddenTextSize + acc.embeddedFileSize
                       + acc.base64Blocks.size + acc.commentsSize
        hiddenRatio == RMin(RMul(Rat(hiddenBytes, fileSize), RInt(100)), RInt(100))
    IN  [hiddenBytes |-> hiddenBytes,
         hiddenRatio |-> hiddenRatio,
         breakdown |->
            [hidden_text |-> acc.hiddenTextSize,
             embedded_files |-> acc.embeddedFileSize,
             base64_blocks |-> acc.base64Blocks.size,
             metadata_score |-> acc.metadataScore,
             comments_size |-> acc.commentsSize],
         findings |-> acc.findings,
         details |->
            [entropyScore |-> toFixed2(acc.base64Blocks.maxEntropy),
             base64BlockCount |-> acc.base64Blocks.count,
             embeddedObjectCount |-> acc.embeddedObjectCount,
             metadataFieldsExtracted |-> acc.metadataFieldsExtracted,
             revisionHistoryCount |-> acc.revisionHistoryCount]]

\* dataBuffer.toString("binary"): the bytes of the buffer, one character each.
BinaryString(dataBuffer) == Join(dataBuffer)

\* analyzePdf once pdfParse has resolved with data.
analyzePdf(dataBuffer, data, fileSize) ==
    LET rawString == BinaryString(dataBuffer)
    IN  PdfResult(
          PdfInvisible(
            PdfAnnots(
              PdfEmbedded(
                PdfMetadata(PdfBase64(PdfStart(data), data), data),
                rawString),
              rawString),
            rawString),
          fileSize)

(***************************************************************************)
(* The fallback heuristic scoring of the handler's catch block.            *)
(***************************************************************************)
HighThreshold == 70
MediumThreshold == 30
BumpBelow == 10
BumpBy == 15
EmbeddedWeight == 20
BaseConfidence == 80
ConfidencePerFinding == 5
MaxConfidence == 99
MaxScore == 100

\* Number.prototype.toFixed(1) of a ratio: tenths, rounded.
toFixed1(r) == (20 * r.num + r.den) \div (2 * r.den)

\* The unclamped sum, before the bump.
RawScore(analysis) ==
    LET embeddedPresence == IF analysis.details.embeddedObjectCount > 0 THEN 1 ELSE 0
        base64EntropyScore == parseFloat(analysis.details.entropyScore)
        metadataAnomalyScore == analysis.breakdown.metadata_score
    IN  RAdd(RAdd(RAdd(RMul(analysis.hiddenRatio, RInt(2)),
                       RInt(embeddedPresence * EmbeddedWeight)),
                  RMul(base64EntropyScore, RInt(2))),
             RMul(RInt(metadataAnomalyScore), Rat(1, 10)))

\* The thresholds compared with > instead of >=.
RiskLevelExclusive(riskScore) ==
    IF RLess(RInt(HighThreshold), riskScore) THEN "HIGH"
    ELSE IF RLess(RInt(MediumThreshold), riskScore) THEN "MEDIUM"
    ELSE "LOW"

RiskLevelOf(riskScore) ==
    IF RLeq(RInt(HighThreshold), riskScore) THEN "HIGH"
    ELSE IF RLeq(RInt(MediumThreshold), riskScore) THEN "MEDIUM"
    ELSE "LOW"

\* The bump applied to every sum below the MEDIUM threshold.
FallbackScoreBumpsBelowMedium(analysis) ==
    LET raw == RawScore(analysis)
        bumped == IF Len(analysis.findings) > 0 /\ RLess(raw, RInt(MediumThreshold))
                  THEN RAdd(raw, RInt(BumpBy)) ELSE raw
        riskScore == RMin(RMax(bumped, RInt(0)), RInt(MaxScore))
        riskLevel == RiskLevelOf(riskScore)
        conf == BaseConfidence + Len(analysis.findings) * ConfidencePerFinding
        confidence == IF conf < MaxConfidence THEN conf ELSE MaxConfidence
    IN  [riskScore |-> riskScore,
         riskLevel |-> riskLevel,
         confidence |-> RInt(confidence),
         verdict |-> [template |-> riskLevel,
                      args |-> <<toFixed1(analysis.hiddenRatio)>>]]

FallbackScore(analysis) ==
    LET raw == RawScore(analysis)
        bumped == IF Len(analysis.findings) > 0 /\ RLess(raw, RInt(BumpBelow))
                  THEN RAdd(raw, RInt(BumpBy)) ELSE raw
        riskScore == RMin(RMax(bumped, RInt(0)), RInt(MaxScore))
        riskLevel == RiskLevelOf(riskScore)
        conf == BaseConfidence + Len(analysis.findings) * ConfidencePerFinding
        confidence == IF conf < MaxConfidence THEN conf ELSE MaxConfidence
    IN  [riskScore |-> riskScore,
         riskLevel |-> riskLevel,
         confidence |-> RInt(confidence),
         verdict |-> [template |-> riskLevel,
                      args |-> <<toFixed1(analysis.hiddenRatio)>>]]

(***************************************************************************)
(* path.extname(name).toLowerCase()                                        *)
(***************************************************************************)
Max(S) == CHOOSE x \in S : \A y \in S : y <= x

UpperChars == "ABCDEFGHIJKLMNOPQRSTUVWXYZ"
LowerChars == "abcdefghijklmnopqrstuvwxyz"

\* The lower-case letter of each upper-case letter.
LowerOf ==
    [c \in {CharAt(UpperChars, i) : i \in 1..Len(UpperChars)} |->
        CharAt(LowerChars, CHOOSE i \in 1..Len(UpperChars) : CharAt(UpperChars, i) = c)]

LowerChar(c) == IF c \in DOMAIN LowerOf THEN LowerOf[c] ELSE c

toLowerCase(s) == Join([i \in 1..Len(s) |-> LowerChar(CharAt(s, i))])

\* The first extension of the name instead of the last: from the first "."
\* to the next.
extnameFirst(name) ==
    LET dots == {i \in 2..Len(name) : CharAt(name, i) = "."}
        first == Min(dots)
        later == {i \in dots : i > first}
    IN  IF dots = {} THEN ""
        ELSE SubSeq(name, first, IF later = {} THEN Len(name) ELSE Min(later) - 1)

\* The extension of the last path segment: from its last "." to the end, ""
\* when it has none or only a leading one.
extname(name) ==
    LET slashes == {i \in 1..Len(name) : CharAt(name, i) = "/"}
        base == IF slashes = {} THEN 1 ELSE Max(slashes) + 1
        dots == {i \in (base + 1)..Len(name) : CharAt(name, i) = "."}
    IN  IF dots = {} THEN "" ELSE SubSeq(name, Max(dots), Len(name))

(***************************************************************************)
(* Sample documents.                                                       *)
(***************************************************************************)
Entry(name, size, data) == [entryName |-> name, size |-> size, data |-> data]
XmlEntry(name, data) == Entry(name, Len(data), data)

\* A body with one tracked insertion, one vanish-tagged run and a deletion.
BodyRevised ==
    "<w:ins><w:rPr><w:vanish/></w:rPr><w:t>secret</w:t></w:ins>"
    \o "<w:del><w:delText>x</w:delText></w:del>"

\* A body with a white-on-white run and a 44-character base64 block.
BodyEncoded ==
    "<w:color w:val=\"FFFFFF\"/><w:t>pay</w:t>\n<w:t>"
    \o Repeat("QUJD", 10) \o "QU==" \o "</w:t>"

\* A body with exactly one vanish-tagged run, no white text and no revision.
BodyVanish == "<w:r><w:rPr><w:vanish/></w:rPr><w:t>key</w:t></w:r>"

CoreProps == "<cp:coreProperties><dc:creator>alice</dc:creator></cp:coreProperties>"
AppProps == "<Properties><Pages>1</Pages></Properties>"

DocxPool ==
    << Entry("word/embeddings/oleObject1.bin", 3000, ""),
       Entry("word/media/image1.png", 700, ""),
       XmlEntry("word/comments.xml", Repeat("c", 501)),
       XmlEntry("word/comments.xml", Repeat("c", 500)),
       XmlEntry("word/document.xml", BodyRevised),
       XmlEntry("word/document.xml", BodyEncoded),
       XmlEntry("docProps/core.xml", CoreProps),
       XmlEntry("docProps/app.xml", AppProps),
       XmlEntry("[Content_Types].xml", "<Types></Types>"),
       XmlEntry("word/document.xml", BodyVanish),
       XmlEntry("word/comments.xml", Repeat("c", 2000)) >>

PiecePool == { "/EmbeddedFiles", "/Names", "/Annots", "3 Tr", " obj " }

ManyKeys(n) == [k \in {"Key" \o ToString(i) : i \in 1..n} |-> "v"]

NoInfo == [text |-> "", info |-> <<>>]

ExtractSamples ==
    { NoInfo,
      [text |-> Repeat("ABCD", 10) \o " end",
       info |-> <<[Creator |-> "", Producer |-> "writer"]>>],
      [text |-> "plain text", info |-> <<ManyKeys(11)>>],
      [text |-> Repeat("AB", 21) \o "== " \o Repeat("A", 39),
       info |-> <<ManyKeys(9) @@ [Creator |-> "office"]>>],
      [text |-> "", info |-> <<ManyKeys(10) @@ [Producer |-> "tool"]>>],
      [text |-> "", info |-> <<[Creator |-> ""]>>] }

FileSizes == { 1000, 1001, 4096, 4097 }

\* The sizes of the DOCX files scanned: below and above 2000.
DocxSizes == { 1000, 4096 }

(***************************************************************************)
(* State.                                                                  *)
(***************************************************************************)
VARIABLES
    pc,           \* per request: where its handler stands
    reqFile,      \* per request: req.file, <<>> when no file was uploaded
    fs,           \* the upload directory: path -> <<>> (absent) or <<content>>
    dataBuffer,   \* per request: the bytes analyzePdf read before its await
    analysis,     \* per request: the analysis result, <<>> before it exists
    response,     \* per request: the responses sent, in order
    oracleCalls,  \* per request: calls made to the risk oracle
    input,        \* per request: what it was given (upload, extraction, oracle)
    interleaved,  \* per request: another request was in flight when it resumed
    coreCalls,    \* per request: the analyzers called for it, in order
    scanIn,       \* a scan on its own: the document being scanned
    scanPhase,    \* a scan on its own: the statement reached
    scanPos,      \* a scan on its own: entries consumed by the forEach
    scanAcc,      \* a scan on its own: the accumulators
    scanOut,      \* a scan on its own: the returned result, <<>> before
    scanVerdict,  \* a scan on its own: the fallback verdict, <<>> before
    b64Text,      \* findBase64Blocks on its own: the text of both calls
    b64Phase,     \* findBase64Blocks on its own: the statement reached
    b64LastIndex, \* findBase64Blocks on its own: base64Regex.lastIndex
    b64Acc,       \* findBase64Blocks on its own: count, size, maxEntropy
    b64Results    \* findBase64Blocks on its own: what the calls returned

hvars ==
    <<pc, reqFile, fs, dataBuffer, analysis, response, oracleCalls, input, interleaved,
      coreCalls>>
svars == <<scanIn, scanPhase, scanPos, scanAcc, scanOut, scanVerdict>>
bvars == <<b64Text, b64Phase, b64LastIndex, b64Acc, b64Results>>
vars == <<hvars, svars, bvars>>

Requests == 1..NumReq

(***************************************************************************)
(* One scan on its own: analyzeDocx or analyzePdf statement by statement,  *)
(* then the fallback scorer on its result.                                 *)
(***************************************************************************)
Range(seq) == {seq[i] : i \in 1..Len(seq)}

\* The packages: up to MaxEntries entries of the pool, enumerated in any
\* order.  An archive may hold several entries of one name.
Packages ==
    {order \in UNION {[1..n -> 1..Len(DocxPool)] : n \in 0..MaxEntries} :
        \A i, j \in 1..Len(order) : i # j => order[i] # order[j]}

\* The byte buffers: up to MaxRaw pieces.
Buffers == UNION {[1..n -> PiecePool] : n \in 0..MaxRaw}

DocxTargets ==
    {[kind |-> "docx", fileSize |-> size,
      zipEntries |-> [i \in 1..Len(order) |-> DocxPool[order[i]]],
      bytes |-> <<>>, data |-> NoInfo] :
        order \in Packages, size \in DocxSizes}

PdfTargets ==
    {[kind |-> "pdf", fileSize |-> size, zipEntries |-> <<>>,
      bytes |-> bytes, data |-> data] :
        bytes \in Buffers, data \in ExtractSamples, size \in FileSizes}

\* No call of findBase64Blocks is followed on its own.
Base64Idle ==
    /\ b64Text = ""
    /\ b64Phase = "idle"
    /\ b64LastIndex = 0
    /\ b64Acc = NoBlocks
    /\ b64Results = <<>>

HandlerIdle ==
    /\ pc = [r \in Requests |-> "idle"]
    /\ reqFile = [r \in Requests |-> <<>>]
    /\ fs = [p \in Requests |-> <<>>]
    /\ dataBuffer = [r \in Requests |-> <<>>]
    /\ analysis = [r \in Requests |-> <<>>]
    /\ response = [r \in Requests |-> <<>>]
    /\ oracleCalls = [r \in Requests |-> 0]
    /\ input = [r \in Requests |-> [upload |-> <<>>, extract |-> <<>>, oracle |-> <<>>]]
    /\ interleaved = [r \in Requests |-> FALSE]
    /\ coreCalls = [r \in Requests |-> <<>>]

ScanInit ==
    /\ HandlerIdle
    /\ Base64Idle
    /\ scanIn \in DocxTargets \cup PdfTargets
    /\ scanPhase = IF scanIn.kind = "docx" THEN "forEach" ELSE "start"
    /\ scanPos = 0
    /\ scanAcc = NewScan
    /\ scanOut = <<>>
    /\ scanVerdict = <<>>

\* zipEntries.forEach: the callback on the next entry.
DocxStep ==
    /\ scanPhase = "forEach"
    /\ scanPos < Len(scanIn.zipEntries)
    /\ scanAcc' = DocxEntry(scanAcc, scanIn.zipEntries[scanPos + 1])
    /\ scanPos' = scanPos + 1
    /\ UNCHANGED <<scanIn, scanPhase, scanOut, scanVerdict, hvars, bvars>>

\* The statements after the forEach, and the return.
DocxReturn ==
    /\ scanPhase = "forEach"
    /\ scanPos = Len(scanIn.zipEntries)
    /\ scanOut' = <<DocxResult(scanAcc, scanIn.fileSize)>>
    /\ scanPhase' = "returned"
    /\ UNCHANGED <<scanIn, scanPos, scanAcc, scanVerdict, hvars, bvars>>

PdfPhase(from, to, acc) ==
    /\ scanPhase = from
    /\ scanAcc' = acc
    /\ scanPhase' = to
    /\ UNCHANGED <<scanIn, scanPos, scanOut, scanVerdict, hvars, bvars>>

PdfStepStart == PdfPhase("start", "base64", PdfStart(scanIn.data))
PdfStepBase64 == PdfPhase("base64", "metadata", PdfBase64(scanAcc, scanIn.data))
PdfStepMetadata == PdfPhase("metadata", "embedded", PdfMetadata(scanAcc, scanIn.data))
PdfStepEmbedded ==
    PdfPhase("embedded", "annots", PdfEmbedded(scanAcc, BinaryString(scanIn.bytes)))
PdfStepAnnots ==
    PdfPhase("annots", "invisible", PdfAnnots(scanAcc, BinaryString(scanIn.bytes)))
PdfStepInvisible ==
    PdfPhase("invisible", "return", PdfInvisible(scanAcc, BinaryString(scanIn.bytes)))

PdfReturn ==
    /\ scanPhase = "return"
    /\ scanOut' = <<PdfResult(scanAcc, scanIn.fileSize)>>
    /\ scanPhase' = "returned"
    /\ UNCHANGED <<scanIn, scanPos, scanAcc, scanVerdict, hvars, bvars>>

\* The fallback scorer applied to the returned result.
ScoreFallback ==
    /\ scanPhase = "returned"
    /\ scanVerdict' = <<FallbackScore(scanOut[1])>>
    /\ scanPhase' = "scored"
    /\ UNCHANGED <<scanIn, scanPos, scanAcc, scanOut, hvars, bvars>>

ScanNext ==
    \/ DocxStep
    \/ DocxReturn
    \/ PdfStepStart
    \/ PdfStepBase64
    \/ PdfStepMetadata
    \/ PdfStepEmbedded
    \/ PdfStepAnnots
    \/ PdfStepInvisible
    \/ PdfReturn
    \/ ScoreFallback

SpecScan == ScanInit /\ [][ScanNext]_vars

(***************************************************************************)
(* The /api/analyze handler.                                               *)
(***************************************************************************)
Content(isZip, zipEntries, bytes) ==
    [isZip |-> isZip, zipEntries |-> zipEntries, bytes |-> bytes]

Upload(name, size, content) ==
    [originalname |-> name, size |-> size, content |-> content]

\* What a request may carry: no file (<<>>) or one of these files.
Uploads ==
    { <<>>,
      <<Upload("notes.docx.txt", 120, Content(FALSE, <<>>, <<" obj ">>))>>,
      <<Upload("Report.DOCX", 4096,
               Content(TRUE, <<DocxPool[2], DocxPool[3]>>, <<" obj ">>))>>,
      <<Upload("broken.docx", 1000, Content(FALSE, <<>>, <<" obj ">>))>>,
      <<Upload("scan.pdf", 4096, Content(FALSE, <<>>, <<"/Names">>))>> }

\* What pdfParse may do: reject (<<>>) or resolve with extracted data.
Extractions == { <<>>, <<NoInfo>> }

OracleNarrative == [template |-> "oracle", args |-> <<>>]
NoFields == [k \in {} |-> 0]

\* What the oracle call may do: reject ("throw"), answer text that is not
\* JSON ("garbage"), answer the JSON null ("null"), or answer a JSON object
\* ("json": obj, the empty object when the answer has no text).
OracleOutcomes ==
    { [kind |-> "throw", obj |-> NoFields],
      [kind |-> "garbage", obj |-> NoFields],
      [kind |-> "null", obj |-> NoFields],
      [kind |-> "json", obj |-> NoFields],
      [kind |-> "json", obj |-> [riskScore |-> RInt(50)]],
      [kind |-> "json",
       obj |-> [riskScore |-> RInt(80), riskLevel |-> "HIGH",
                confidence |-> RInt(90), verdict |-> OracleNarrative]],
      [kind |-> "json",
       obj |-> [riskScore |-> RInt(150), riskLevel |-> "CRITICAL",
                confidence |-> RInt(120), verdict |-> OracleNarrative]] }

\* An archive reader that accepts any file as an archive without entries.
ArchiveOpensLenient(stored) == stored # <<>>

\* new AdmZip(filePath) returns: the file is there and is a ZIP archive.
ArchiveOpens(stored) == stored # <<>> /\ stored[1].isZip

\* Every upload stored under one fixed name.
FilePathFixed(r) == 1

\* multer stores each upload under a fresh random name in the upload
\* directory: the path of a request's file is its own.
FilePath(r) == r

DefaultConfidence == 85

\* The initial value of aiResult.
DefaultResult ==
    [riskScore |-> RInt(0),
     riskLevel |-> "LOW",
     confidence |-> RInt(DefaultConfidence),
     verdict |-> [template |-> "default", args |-> <<>>]]

\* The inner try/catch: aiResult after the oracle call ended with out.
\* A rejected call, JSON.parse of text that is not JSON and the property
\* access on a parsed null all throw into the catch block.
aiResultOf(result, out) ==
    IF out.kind \in {"throw", "garbage", "null"}
    THEN FallbackScore(result)
    ELSE IF "riskScore" \in DOMAIN out.obj THEN out.obj ELSE DefaultResult

ResponseField(k) ==
    CASE k = "risk_score" -> "riskScore"
      [] k = "risk_level" -> "riskLevel"
      [] k = "confidence" -> "confidence"
      [] k = "verdict" -> "verdict"

\* The response object as res.json serialises it: a property whose value is
\* undefined is left out.  The timestamp is not modelled.
SuccessBody(file, result, aiResult) ==
    LET present == {k \in {"risk_score", "risk_level", "confidence", "verdict"} :
                      ResponseField(k) \in DOMAIN aiResult}
    IN  [file_name |-> file.originalname,
         file_size |-> file.size,
         hidden_bytes |-> result.hiddenBytes,
         hidden_ratio |-> result.hiddenRatio,
         breakdown |-> result.breakdown,
         findings |-> result.findings,
         details |-> result.details]
        @@ [k \in present |-> aiResult[ResponseField(k)]]

OkStatus == 200
BadRequest == 400
ServerError == 500

Success(file, result, aiResult) ==
    [status |-> OkStatus, body |-> SuccessBody(file, result, aiResult)]
Failure(status, msg) == [status |-> status, body |-> [error |-> msg]]

NoFileResponse == Failure(BadRequest, "No file uploaded")
UnsupportedResponse ==
    Failure(BadRequest, "Unsupported file type. Only PDF and DOCX are allowed.")
AnalysisFailed == Failure(ServerError, "Failed to analyze file")

\* No scan is followed on its own.
ScanIdle ==
    /\ scanIn = [kind |-> "none", fileSize |-> 1, zipEntries |-> <<>>,
                 bytes |-> <<>>, data |-> NoInfo]
    /\ scanPhase = "idle"
    /\ scanPos = 0
    /\ scanAcc = NewScan
    /\ scanOut = <<>>
    /\ scanVerdict = <<>>

Init ==
    /\ HandlerIdle
    /\ ScanIdle
    /\ Base64Idle

\* A success response after which control still reaches the catch block.
RespondThenCatch(r, resp) ==
    /\ response' = [response EXCEPT ![r] =
            IF resp.status = OkStatus
            THEN Append(Append(@, resp), AnalysisFailed)
            ELSE Append(@, resp)]
    /\ pc' = [pc EXCEPT ![r] = "done"]

\* res.status(..).json(..): the request is answered and the handler returns.
Respond(r, resp) ==
    /\ response' = [response EXCEPT ![r] = Append(@, resp)]
    /\ pc' = [pc EXCEPT ![r] = "done"]

\* The catch block without its clean-up.
CatchKeepsFile(r) ==
    /\ fs' = fs
    /\ Respond(r, AnalysisFailed)

\* The outer catch block: remove the upload if it is still there, answer 500.
Catch(r) ==
    /\ fs' = [fs EXCEPT ![reqFile[r][1].path] = <<>>]
    /\ Respond(r, AnalysisFailed)

\* The end of the analysis and the call of the oracle (the handler awaits it).
CallOracle(r, result) ==
    /\ analysis' = [analysis EXCEPT ![r] = <<result>>]
    /\ oracleCalls' = [oracleCalls EXCEPT ![r] = @ + 1]
    /\ pc' = [pc EXCEPT ![r] = "oracle"]

\* Request r resumes after an await: note whether another request is in
\* flight (received and not yet answered) at that moment.
Resume(r) ==
    interleaved' = [interleaved EXCEPT ![r] =
        @ \/ \E q \in Requests \ {r} : pc[q] \in {"handler", "pdfParse", "oracle"}]

\* upload.single("file"): the request arrives, multer stores its file.
Receive(r, u) ==
    /\ pc[r] = "idle"
    /\ input' = [input EXCEPT ![r].upload = u]
    /\ IF u = <<>>
       THEN UNCHANGED <<reqFile, fs>>
       ELSE /\ reqFile' = [reqFile EXCEPT ![r] =
                  <<[originalname |-> u[1].originalname,
                     path |-> FilePath(r),
                     size |-> u[1].size]>>]
            /\ fs' = [fs EXCEPT ![FilePath(r)] = <<u[1].content>>]
    /\ pc' = [pc EXCEPT ![r] = "handler"]
    /\ UNCHANGED <<dataBuffer, analysis, response, oracleCalls, interleaved, coreCalls, svars, bvars>>

\* The handler from its entry to its first await or to its response.
Handle(r) ==
    /\ pc[r] = "handler"
    /\ IF reqFile[r] = <<>>
       THEN /\ Respond(r, NoFileResponse)
            /\ UNCHANGED <<fs, dataBuffer, analysis, oracleCalls>>
       ELSE LET file == reqFile[r][1]
                ext == toLowerCase(extname(file.originalname))
                stored == fs[file.path]
            IN  IF ext # ".pdf" /\ ext # ".docx"
                THEN IF stored = <<>>
                     THEN \* unlinkSync throws outside the try: the handler's
                          \* promise rejects and no response is sent
                          /\ pc' = [pc EXCEPT ![r] = "rejected"]
                          /\ UNCHANGED <<fs, response, dataBuffer, analysis, oracleCalls>>
                     ELSE /\ fs' = [fs EXCEPT ![file.path] = <<>>]
                          /\ Respond(r, UnsupportedResponse)
                          /\ UNCHANGED <<dataBuffer, analysis, oracleCalls>>
                ELSE IF ext = ".docx"
                THEN IF ~ArchiveOpens(stored)
                     THEN \* new AdmZip(filePath) throws
                          /\ Catch(r)
                          /\ UNCHANGED <<dataBuffer, analysis, oracleCalls>>
                     ELSE /\ CallOracle(r, analyzeDocx(stored[1].zipEntries, file.size))
                          /\ UNCHANGED <<fs, dataBuffer, response>>
                ELSE IF stored = <<>>
                     THEN \* fs.readFileSync throws
                          /\ Catch(r)
                          /\ UNCHANGED <<dataBuffer, analysis, oracleCalls>>
                     ELSE /\ dataBuffer' = [dataBuffer EXCEPT ![r] = <<stored[1].bytes>>]
                          /\ pc' = [pc EXCEPT ![r] = "pdfParse"]
                          /\ UNCHANGED <<fs, analysis, response, oracleCalls>>
    /\ coreCalls' =
         IF reqFile[r] = <<>> THEN coreCalls
         ELSE LET ext == toLowerCase(extname(reqFile[r][1].originalname))
              IN  IF ext = ".docx"
                  THEN [coreCalls EXCEPT ![r] = Append(@, "analyzeDocx")]
                  ELSE IF ext = ".pdf"
                  THEN [coreCalls EXCEPT ![r] = Append(@, "analyzePdf")]
                  ELSE coreCalls
    /\ UNCHANGED <<reqFile, input, interleaved, svars, bvars>>

\* await pdfParse(dataBuffer) settles: the rest of analyzePdf, then as above.
PdfParsed(r, data) ==
    /\ pc[r] = "pdfParse"
    /\ input' = [input EXCEPT ![r].extract = <<data>>]
    /\ Resume(r)
    /\ IF data = <<>>
       THEN /\ Catch(r)
            /\ UNCHANGED <<analysis, oracleCalls>>
       ELSE /\ CallOracle(r, analyzePdf(dataBuffer[r][1], data[1], reqFile[r][1].size))
            /\ UNCHANGED <<fs, response>>
    /\ UNCHANGED <<reqFile, dataBuffer, coreCalls, svars, bvars>>

\* await ai.models.generateContent(..) settles: the verdict, the clean-up
\* and the response.
OracleReturns(r, out) ==
    /\ pc[r] = "oracle"
    /\ input' = [input EXCEPT ![r].oracle = <<out>>]
    /\ Resume(r)
    /\ LET file == reqFile[r][1]
           aiResult == aiResultOf(analysis[r][1], out)
       IN  IF fs[file.path] = <<>>
           THEN \* unlinkSync throws inside the try
                Catch(r)
           ELSE /\ fs' = [fs EXCEPT ![file.path] = <<>>]
                /\ Respond(r, Success(file, analysis[r][1], aiResult))
    /\ UNCHANGED <<reqFile, dataBuffer, analysis, oracleCalls, coreCalls, svars, bvars>>

Next ==
    \E r \in Requests :
        \/ \E u \in Uploads : Receive(r, u)
        \/ Handle(r)
        \/ \E data \in Extractions : PdfParsed(r, data)
        \/ \E out \in OracleOutcomes : OracleReturns(r, out)

Spec == Init /\ [][Next]_vars

(***************************************************************************)
(* findBase64Blocks called twice on one text, statement by statement.      *)
(***************************************************************************)
\* The pieces the texts are assembled from: a run of 40 alphabet characters,
\* one of 39, a padded tail and a separator.
ChunkPool == { Repeat("QUJD", 10), Repeat("QUJD", 9) \o "QUJ", "QU==", " " }

Texts == {Join(chunks) : chunks \in UNION {[1..n -> ChunkPool] : n \in 0..MaxChunks}}

Base64Init ==
    /\ HandlerIdle
    /\ ScanIdle
    /\ b64Text \in Texts
    /\ b64Phase = "call"
    /\ b64LastIndex = 0
    /\ b64Acc = NoBlocks
    /\ b64Results = <<>>

\* The accumulators kept from one call to the next, as if declared outside
\* the function.
Base64CallKeepsTotals ==
    /\ b64Phase = "call"
    /\ b64LastIndex' = 0
    /\ b64Phase' = "while"
    /\ UNCHANGED <<b64Text, b64Acc, b64Results, hvars, svars>>

\* The function is entered: a new expression object (lastIndex 0) and the
\* three accumulators at 0.
Base64Call ==
    /\ b64Phase = "call"
    /\ b64LastIndex' = 0
    /\ b64Acc' = NoBlocks
    /\ b64Phase' = "while"
    /\ UNCHANGED <<b64Text, b64Results, hvars, svars>>

\* One evaluation of the while condition, and the loop body when exec
\* matched.  exec searches from lastIndex, sets lastIndex to the end of the
\* match, and to 0 when there is none.
Base64Exec ==
    /\ b64Phase = "while"
    /\ LET text == b64Text
           from == b64LastIndex + 1
           inRun(j) == CharAt(text, j) \in Base64Alphabet
           starts == {j \in from..Len(text) :
                         inRun(j) /\ (j = from \/ ~inRun(j - 1))
                         /\ Base64MatchLen(text, j) > 0}
           j == Min(starts)
           m == Base64MatchLen(text, j)
           entropy == calculateEntropy(SubSeq(text, j, j + m - 1))
       IN  IF starts = {}
           THEN /\ b64LastIndex' = 0
                /\ b64Phase' = "return"
                /\ UNCHANGED b64Acc
           ELSE /\ b64LastIndex' = j + m - 1
                /\ b64Acc' = [count |-> b64Acc.count + 1,
                              size |-> b64Acc.size + m,
                              maxEntropy |-> IF entropy > b64Acc.maxEntropy
                                             THEN entropy ELSE b64Acc.maxEntropy]
                /\ UNCHANGED b64Phase
    /\ UNCHANGED <<b64Text, b64Results, hvars, svars>>

\* return { count, size, maxEntropy }; the caller calls again on the same
\* text until it has called Calls times.
Base64Return ==
    /\ b64Phase = "return"
    /\ b64Results' = Append(b64Results, b64Acc)
    /\ b64Phase' = IF Len(b64Results) + 1 < Calls THEN "call" ELSE "done"
    /\ UNCHANGED <<b64Text, b64LastIndex, b64Acc, hvars, svars>>

Base64Next ==
    \/ Base64Call
    \/ Base64Exec
    \/ Base64Return

SpecBase64 == Base64Init /\ [][Base64Next]_vars

(***************************************************************************)
(* Properties of the handler (checked under Spec).                         *)
(***************************************************************************)
Answered(r) == pc[r] = "done"
Sent(r) == response[r][Len(response[r])]
Succeeded(r) == Answered(r) /\ Sent(r).status = 200

VerdictKeys == {"risk_score", "risk_level", "confidence", "verdict"}

\* The verdict fields a response body carries.
VerdictIn(body) == [k \in VerdictKeys \cap DOMAIN body |-> body[k]]

\* A verdict as the response carries it.
AsVerdict(v) ==
    [risk_score |-> v.riskScore, risk_level |-> v.riskLevel,
     confidence |-> v.confidence, verdict |-> v.verdict]

\* The oracle call failed: it threw, its text was not JSON (or parsed to
\* null), or the parsed object has no riskScore.
OracleFailed(out) ==
    out.kind \in {"throw", "garbage", "null"} \/ "riskScore" \notin DOMAIN out.obj

ExtOf(u) == toLowerCase(extname(u.originalname))

\* The analyzer fails on this input: a .docx that is no archive, or a .pdf
\* whose text extraction was rejected.
AnalyzerFails(in) ==
    /\ in.upload # <<>>
    /\ \/ ~in.upload[1].content.isZip /\ ExtOf(in.upload[1]) = ".docx"
       \/ in.extract = << <<>> >> /\ ExtOf(in.upload[1]) = ".pdf"

\* C1: on any oracle failure (the call throws, its text is not parseable
\* JSON, or the parsed response has no riskScore) the verdict in the success
\* response is the one the fallback scorer computes from the analysis.
C1_OracleFailureUsesFallback ==
    \A r \in Requests :
        (Succeeded(r) /\ input[r].oracle # <<>> /\ OracleFailed(input[r].oracle[1]))
        => VerdictIn(Sent(r).body) = AsVerdict(FallbackScore(analysis[r][1]))

\* C2: whenever the analyzer returned for a request, the response sent is a
\* success response carrying a complete verdict (risk_score, risk_level,
\* confidence, verdict), whatever the oracle did.
C2_AnalysisAlwaysYieldsVerdict ==
    \A r \in Requests :
        (Answered(r) /\ analysis[r] # <<>>)
        => Sent(r).status = 200 /\ VerdictKeys \subseteq DOMAIN Sent(r).body

\* C3: in every success response the risk_score is in [0,100], the
\* risk_level is LOW, MEDIUM or HIGH and is the level of the risk_score
\* (HIGH from 70, MEDIUM from 30, else LOW), and the confidence is in
\* [0,100].  Stated of the fields the response carries.
C3_VerdictWellFormed ==
    \A r \in Requests :
        Succeeded(r) =>
            LET b == Sent(r).body
                has(k) == k \in DOMAIN b
                inRange(x) == 0 <= x.num /\ x.num <= 100 * x.den
                levelOf(x) == IF x.num >= 70 * x.den THEN "HIGH"
                              ELSE IF x.num >= 30 * x.den THEN "MEDIUM"
                              ELSE "LOW"
            IN  /\ has("risk_score") => inRange(b.risk_score)
                /\ has("risk_level") => b.risk_level \in {"LOW", "MEDIUM", "HIGH"}
                /\ (has("risk_score") /\ has("risk_level"))
                   => b.risk_level = levelOf(b.risk_score)
                /\ has("confidence") => inRange(b.confidence)

\* C7: once a request that carried a file has been answered, its temporary
\* upload file no longer exists, on every path.
C7_UploadRemoved ==
    \A r \in Requests :
        (Answered(r) /\ reqFile[r] # <<>>) => fs[reqFile[r][1].path] = <<>>

\* Two requests answered, one after an oracle failure and one after an
\* analyzer failure, both with their files gone.
C7_Witness ==
    \E r, q \in Requests :
        /\ Succeeded(r) /\ input[r].oracle # <<>> /\ input[r].oracle[1].kind = "throw"
        /\ Answered(q) /\ AnalyzerFails(input[q]) /\ Sent(q).status = 500
        /\ fs[reqFile[r][1].path] = <<>> /\ fs[reqFile[q][1].path] = <<>>

\* C8: when analyzeDocx cannot open the archive or the PDF text extraction
\* fails, the request gets the error response alone (status 500, an error
\* message, no breakdown, findings, details or verdict) and the oracle is
\* never called for it.
C8_AnalyzerFailureIsTerminal ==
    \A r \in Requests :
        (Answered(r) /\ AnalyzerFails(input[r]))
        => /\ Len(response[r]) = 1
           /\ Sent(r).status = 500
           /\ DOMAIN Sent(r).body = {"error"}
           /\ oracleCalls[r] = 0
           /\ analysis[r] = <<>>

\* A broken .docx and a .pdf whose extraction failed, both answered.
C8_Witness ==
    \E r, q \in Requests :
        /\ Answered(r) /\ AnalyzerFails(input[r]) /\ ExtOf(input[r].upload[1]) = ".docx"
        /\ Answered(q) /\ AnalyzerFails(input[q]) /\ ExtOf(input[q].upload[1]) = ".pdf"

\* The request went through the steps it goes through alone: the text of a
\* .pdf was extracted, and the oracle was consulted unless the analyzer
\* fails on the input.
RanAsAlone(in) ==
    in.upload # <<>> =>
        LET ext == ExtOf(in.upload[1])
        IN  /\ ext = ".pdf" => in.extract # <<>>
            /\ (ext \in {".pdf", ".docx"} /\ ~AnalyzerFails(in)) => in.oracle # <<>>

\* The response of the handler run alone on what a request was given.
Solo(in) ==
    IF in.upload = <<>> THEN NoFileResponse
    ELSE LET u == in.upload[1]
             ext == ExtOf(u)
         IN  IF ext \notin {".pdf", ".docx"} THEN UnsupportedResponse
             ELSE IF AnalyzerFails(in) THEN AnalysisFailed
             ELSE LET result ==
                        IF ext = ".docx"
                        THEN analyzeDocx(u.content.zipEntries, u.size)
                        ELSE analyzePdf(u.content.bytes, in.extract[1][1], u.size)
                  IN  Success(u, result, aiResultOf(result, in.oracle[1]))

\* C9: requests processed concurrently, interleaving at their awaits, each
\* get the response they would get alone on the same input.
C9_ResponseAsIfAlone ==
    \A r \in Requests :
        Answered(r) => /\ RanAsAlone(input[r])
                       /\ response[r] = <<Solo(input[r])>>

\* Two requests that were both in flight while the other resumed, both
\* answered with a success response.
C9_Witness ==
    \E r, q \in Requests :
        /\ r # q
        /\ Succeeded(r) /\ Succeeded(q)
        /\ interleaved[r] /\ interleaved[q]

\* The name ends in the suffix, letter case aside.
EndsIn(name, suffix) ==
    /\ Len(name) >= Len(suffix)
    /\ toLowerCase(SubSeq(name, Len(name) - Len(suffix) + 1, Len(name))) = suffix

\* C17: a request whose file name does not end in .pdf or .docx, compared
\* case-insensitively, is answered with a 400 error and neither analyzer nor
\* the oracle runs for it; analyzeDocx is called only for names ending in
\* .docx and analyzePdf only for names ending in .pdf.
C17_UnsupportedRejectedBeforeCore ==
    \A r \in Requests :
        input[r].upload # <<>> =>
            LET name == input[r].upload[1].originalname
            IN  /\ (~EndsIn(name, ".pdf") /\ ~EndsIn(name, ".docx"))
                   => /\ coreCalls[r] = <<>>
                      /\ oracleCalls[r] = 0
                      /\ analysis[r] = <<>>
                      /\ pc[r] \in {"handler", "done"}
                      /\ Answered(r)
                         => /\ Len(response[r]) = 1
                            /\ Sent(r).status = 400
                            /\ DOMAIN Sent(r).body = {"error"}
                /\ "analyzeDocx" \in Range(coreCalls[r]) => EndsIn(name, ".docx")
                /\ "analyzePdf" \in Range(coreCalls[r]) => EndsIn(name, ".pdf")

\* A .txt upload answered 400 and an upper-case .DOCX upload analysed.
C17_Witness ==
    \E r, q \in Requests :
        /\ Answered(r) /\ input[r].upload # <<>>
        /\ ~EndsIn(input[r].upload[1].originalname, ".pdf")
        /\ ~EndsIn(input[r].upload[1].originalname, ".docx")
        /\ Sent(r).status = 400
        /\ input[q].upload # <<>>
        /\ input[q].upload[1].originalname = "Report.DOCX"
        /\ coreCalls[q] = <<"analyzeDocx">>

\* C20: every request gets exactly one response: on each path through the
\* handler (no file, unsupported extension, success, analyzer failure,
\* oracle failure) a response is sent once and never twice, the handler
\* never ends without one, and a 500 never follows a success response of
\* the same request.
C20_ExactlyOneResponse ==
    \A r \in Requests :
        /\ Len(response[r]) <= 1
        /\ Answered(r) <=> Len(response[r]) = 1
        /\ pc[r] # "rejected"
        /\ \A i, j \in 1..Len(response[r]) :
               (i < j /\ response[r][i].status = OkStatus)
               => response[r][j].status # ServerError
        /\ Answered(r) =>
               LET in == input[r]
               IN  Sent(r).status =
                       IF in.upload = <<>> THEN BadRequest
                       ELSE IF ExtOf(in.upload[1]) \notin {".pdf", ".docx"} THEN BadRequest
                       ELSE IF AnalyzerFails(in) THEN ServerError
                       ELSE OkStatus

\* One request answered with the fallback verdict after the oracle failed,
\* another answered with the 500 of an analyzer failure.
C20_Witness ==
    \E r, q \in Requests :
        /\ Succeeded(r) /\ Len(response[r]) = 1
        /\ input[r].oracle # <<>> /\ OracleFailed(input[r].oracle[1])
        /\ Answered(q) /\ AnalyzerFails(input[q])
        /\ Len(response[q]) = 1 /\ Sent(q).status = ServerError

(***************************************************************************)
(* Properties of one scan (checked under SpecScan).                        *)
(***************************************************************************)
Returned == scanOut # <<>>

\* The entries of the package in the order of the pool.
PoolOrder(zipEntries) == SelectSeq(DocxPool, LAMBDA e : e \in Range(zipEntries))

Occurrences(seq, x) == Cardinality({i \in 1..Len(seq) : seq[i] = x})

SameFindings(f, g) ==
    /\ Len(f) = Len(g)
    /\ \A x \in Range(f) \cup Range(g) : Occurrences(f, x) = Occurrences(g, x)

\* C4: analyzeDocx returns the same result, the ordered findings list
\* included, in whatever order the entries are enumerated.
C4_OrderIndependent ==
    (Returned /\ scanIn.kind = "docx")
    => scanOut[1] = analyzeDocx(PoolOrder(scanIn.zipEntries), scanIn.fileSize)

\* C4 as amended: in whatever order the entries are enumerated, analyzeDocx
\* returns the same hiddenBytes, hiddenRatio, breakdown and details, and the
\* same findings each the same number of times; their order may differ.
C4_OrderIndependentUpToFindingOrder ==
    (Returned /\ scanIn.kind = "docx")
    => LET other == analyzeDocx(PoolOrder(scanIn.zipEntries), scanIn.fileSize)
       IN  /\ scanOut[1].hiddenBytes = other.hiddenBytes
           /\ scanOut[1].hiddenRatio = other.hiddenRatio
           /\ scanOut[1].breakdown = other.breakdown
           /\ scanOut[1].details = other.details
           /\ SameFindings(scanOut[1].findings, other.findings)

\* A package scanned in an order that changes the order of its findings.
C4_Witness ==
    /\ Returned /\ scanIn.kind = "docx"
    /\ scanOut[1].findings
       # analyzeDocx(PoolOrder(scanIn.zipEntries), scanIn.fileSize).findings
    /\ scanOut[1].breakdown.embedded_files > 0

\* C5: the returned hiddenRatio is min(hiddenBytes / fileSize * 100, 100)
\* and lies in [0,100], also when hiddenBytes exceeds fileSize.
C5_HiddenRatioClamped ==
    Returned =>
        LET hb == scanOut[1].hiddenBytes
            size == scanIn.fileSize
            ratio == scanOut[1].hiddenRatio
        IN  /\ hb >= 0 /\ size > 0 /\ ratio.den > 0
            /\ IF hb >= size
               THEN ratio.num = 100 * ratio.den
               ELSE ratio.num * size = 100 * hb * ratio.den
            /\ 0 <= ratio.num /\ ratio.num <= 100 * ratio.den

\* A PDF scan whose hidden bytes exceed the file size.
C5_Witness ==
    /\ Returned /\ scanIn.kind = "pdf"
    /\ scanOut[1].hiddenBytes > scanIn.fileSize
    /\ scanOut[1].hiddenRatio = RInt(100)

\* C6: the fallback riskScore is the weighted sum hiddenRatio*2 +
\* embeddedPresence*20 + entropy*2 + metadataScore*0.1, plus 15 when there
\* are findings and the sum is below 10, clamped to [0,100]; riskLevel is
\* HIGH iff riskScore >= 70, MEDIUM iff 30 <= riskScore < 70, LOW iff
\* riskScore < 30.
C6_FallbackScoreAndLevel ==
    scanVerdict # <<>> =>
        LET res == scanOut[1]
            v == scanVerdict[1]
            \* the sum over the common denominator 100 * hiddenRatio.den
            den == 100 * res.hiddenRatio.den
            presence == IF res.details.embeddedObjectCount > 0 THEN 1 ELSE 0
            sum == 200 * res.hiddenRatio.num
                   + 20 * presence * den
                   + 2 * res.details.entropyScore * res.hiddenRatio.den
                   + res.breakdown.metadata_score * 10 * res.hiddenRatio.den
            bumped == IF Len(res.findings) > 0 /\ sum < 10 * den
                      THEN sum + 15 * den ELSE sum
            clamped == IF bumped > 100 * den THEN 100 * den
                       ELSE IF bumped < 0 THEN 0 ELSE bumped
            score == v.riskScore
            \* clamped / den in lowest terms
            g == GCD(clamped, den)
        IN  /\ score.num = clamped \div g /\ score.den = den \div g
            /\ v.riskLevel = "HIGH" <=> score.num >= 70 * score.den
            /\ v.riskLevel = "MEDIUM"
               <=> (score.num >= 30 * score.den /\ score.num < 70 * score.den)
            /\ v.riskLevel = "LOW" <=> score.num < 30 * score.den

\* A fallback score of exactly 70, rated HIGH.
C6_Witness ==
    /\ scanVerdict # <<>>
    /\ scanVerdict[1].riskScore = RInt(70)
    /\ scanVerdict[1].riskLevel = "HIGH"

\* Occurrences of markers among the pieces the buffer is assembled from.
Pieces(markers) == Cardinality({i \in 1..Len(scanIn.bytes) : scanIn.bytes[i] \in markers})

\* C10: for a PDF buffer with e embedded-file/name-tree markers, a
\* annotation markers and t invisible-text markers, embeddedObjectCount = e,
\* embedded_files = 1024*e, comments_size = 256*a, hidden_text = 50*t, and
\* each of the three findings appears once if its count is positive and not
\* at all otherwise.
C10_PdfMarkerEstimates ==
    (Returned /\ scanIn.kind = "pdf") =>
        LET e == Pieces({"/EmbeddedFiles", "/Names"})
            a == Pieces({"/Annots"})
            t == Pieces({"3 Tr"})
            res == scanOut[1]
            once(n) == IF n > 0 THEN 1 ELSE 0
        IN  /\ res.details.embeddedObjectCount = e
            /\ res.breakdown.embedded_files = 1024 * e
            /\ res.breakdown.comments_size = 256 * a
            /\ res.breakdown.hidden_text = 50 * t
            /\ Occurrences(res.findings, FEmbedded) = once(e)
            /\ Occurrences(res.findings, FAnnots) = once(a)
            /\ Occurrences(res.findings, FInvisible) = once(t)

\* Three embedded-file markers and no other: 3072 bytes, 3 objects, one
\* finding.
C10_Witness ==
    /\ Returned /\ scanIn.kind = "pdf"
    /\ Pieces({"/EmbeddedFiles", "/Names"}) = 3
    /\ Pieces({"/Annots"}) = 0 /\ Pieces({"3 Tr"}) = 0
    /\ scanOut[1].breakdown.embedded_files = 3072
    /\ scanOut[1].details.embeddedObjectCount = 3
    /\ Occurrences(scanOut[1].findings, FEmbedded) = 1

\* The positions of the entries under the embeddings and media namespaces.
EmbeddedEntries(zipEntries) ==
    {i \in 1..Len(zipEntries) :
        \/ startsWith(zipEntries[i].entryName, "word/embeddings/")
        \/ startsWith(zipEntries[i].entryName, "word/media/")}

\* C11: analyzeDocx returns as embeddedObjectCount the number of entries
\* under the embeddings/media namespaces, as embedded_files the sum of their
\* uncompressed sizes, and the embedded-objects finding once if there is such
\* an entry and not at all if there is none.
C11_EmbeddedEntriesCounted ==
    (Returned /\ scanIn.kind = "docx") =>
        LET under == EmbeddedEntries(scanIn.zipEntries)
            sizes == [i \in under |-> scanIn.zipEntries[i].size]
        IN  /\ scanOut[1].details.embeddedObjectCount = Cardinality(under)
            /\ scanOut[1].breakdown.embedded_files = SumOver(under, sizes)
            /\ Occurrences(scanOut[1].findings, FEmbedded)
               = IF under = {} THEN 0 ELSE 1

\* A package with two embedded entries: both counted, one finding.
C11_Witness ==
    /\ Returned /\ scanIn.kind = "docx"
    /\ Cardinality(EmbeddedEntries(scanIn.zipEntries)) = 2
    /\ scanOut[1].details.embeddedObjectCount = 2
    /\ scanOut[1].breakdown.embedded_files = 3700
    /\ Occurrences(scanOut[1].findings, FEmbedded) = 1

\* The findings derived from the main document body part.
BodyFinding(f) == f.msg \in {FVanish.msg, FWhite.msg, FRevisions(0).msg}

\* C12: in a DOCX scan every finding string derived from the body part
\* (revisions, hidden text, white text) is in the findings at most once,
\* however many matches or body-part entries there are; a package whose one
\* body part has a vanish-tagged run, no white text and no revision yields
\* exactly one hidden-text finding and no revision finding.
C12_BodyFindingsOnce ==
    (Returned /\ scanIn.kind = "docx") =>
        LET findings == scanOut[1].findings
        IN  /\ \A f \in Range(findings) :
                   BodyFinding(f) => Occurrences(findings, f) = 1
            /\ (\E i \in 1..Len(scanIn.zipEntries) :
                    scanIn.zipEntries[i] = XmlEntry("word/document.xml", BodyVanish))
               => /\ Occurrences(findings, FVanish) >= 1
                  /\ Len(scanIn.zipEntries) = 1
                     => /\ Occurrences(findings, FVanish) = 1
                        /\ \A f \in Range(findings) : f.msg # FRevisions(0).msg

\* The positions of the comments parts.
CommentsParts(zipEntries) ==
    {i \in 1..Len(zipEntries) : zipEntries[i].entryName = "word/comments.xml"}

\* C13: analyzeDocx adds the text length of each comments part to
\* comments_size and emits the comments finding for a part if and only if its
\* length is strictly greater than 500; when the comments parts are the only
\* signal, every other breakdown counter is 0 and hiddenRatio is
\* min(comments_size / fileSize * 100, 100).
C13_CommentsPart ==
    (Returned /\ scanIn.kind = "docx") =>
        LET parts == CommentsParts(scanIn.zipEntries)
            lengths == [i \in parts |-> Len(scanIn.zipEntries[i].data)]
            res == scanOut[1]
            total == res.breakdown.comments_size
            size == scanIn.fileSize
        IN  /\ total = SumOver(parts, lengths)
            /\ Occurrences(res.findings, FComments)
               = Cardinality({i \in parts : lengths[i] > 500})
            /\ (\A i \in 1..Len(scanIn.zipEntries) :
                    i \in parts \/ scanIn.zipEntries[i].entryName = "[Content_Types].xml")
               => /\ res.breakdown.hidden_text = 0
                  /\ res.breakdown.embedded_files = 0
                  /\ res.breakdown.base64_blocks = 0
                  /\ res.breakdown.metadata_score = 0
                  /\ res.hiddenBytes = total
                  /\ IF total >= size
                     THEN res.hiddenRatio.num = 100 * res.hiddenRatio.den
                     ELSE res.hiddenRatio.num * size = 100 * total * res.hiddenRatio.den

\* A 2000-character comments part as the only entry of a 4096-byte file.
C13_Witness ==
    /\ Returned /\ scanIn.kind = "docx"
    /\ Len(scanIn.zipEntries) = 1
    /\ scanIn.zipEntries[1].entryName = "word/comments.xml"
    /\ scanIn.fileSize = 4096
    /\ scanOut[1].breakdown.comments_size = 2000
    /\ scanOut[1].findings = <<FComments>>
    /\ scanOut[1].hiddenRatio.num * 4096 = 200000 * scanOut[1].hiddenRatio.den

\* The five breakdown counters of a scan in progress.
Counters(acc) ==
    <<acc.hiddenTextSize, acc.embeddedFileSize, acc.base64Blocks.size,
      acc.metadataScore, acc.commentsSize>>

\* C14: within one scan each of the five breakdown counters is a
\* non-negative integer at every step and never decreases from one step of
\* the scan to the next.
C14_CountersOnlyGrow ==
    /\ [](\A i \in 1..5 : Counters(scanAcc)[i] \in Nat)
    /\ [][\A i \in 1..5 : Counters(scanAcc')[i] >= Counters(scanAcc)[i]]_vars

\* A DOCX scan in progress whose embedded size grew at each of two entries.
C14_Witness ==
    /\ scanIn.kind = "docx" /\ scanPhase = "forEach" /\ scanPos = 2
    /\ Cardinality(EmbeddedEntries(scanIn.zipEntries)) = 2
    /\ scanAcc.embeddedFileSize = 3700

\* C15: for both analyzers the returned hiddenBytes is exactly hidden_text +
\* embedded_files + base64_blocks + comments_size of the returned breakdown;
\* the metadata score is no part of it.
C15_HiddenBytesIsTheSum ==
    Returned =>
        LET b == scanOut[1].breakdown
        IN  scanOut[1].hiddenBytes
            = b.hidden_text + b.embedded_files + b.base64_blocks + b.comments_size

\* A DOCX scan that returned hidden bytes and a metadata score.
C15_Witness ==
    /\ Returned /\ scanIn.kind = "docx"
    /\ scanOut[1].breakdown.metadata_score > 0
    /\ scanOut[1].hiddenBytes > 0

\* The keys of the info dictionary the extraction returned.
InfoKeys(data) == IF data.info = <<>> THEN {} ELSE DOMAIN data.info[1]

\* C18: analyzePdf returns as metadataFieldsExtracted the number of keys of
\* the info dictionary; metadata_score is 10 if a Creator or Producer field
\* is present (else 0) plus 20 if and only if there are more than 10 fields;
\* the excessive-fields finding is emitted exactly when the 20 is added; the
\* score is one of 0, 10, 20, 30.
C18_PdfMetadataScore ==
    (Returned /\ scanIn.kind = "pdf") =>
        LET keys == InfoKeys(scanIn.data)
            fields == Cardinality(keys)
            present == "Creator" \in keys \/ "Producer" \in keys
            excessive == fields > 10
            res == scanOut[1]
        IN  /\ res.details.metadataFieldsExtracted = fields
            /\ res.breakdown.metadata_score
               = (IF present THEN 10 ELSE 0) + (IF excessive THEN 20 ELSE 0)
            /\ Occurrences(res.findings, FMetadata) = IF excessive THEN 1 ELSE 0
            /\ res.breakdown.metadata_score \in {0, 10, 20, 30}

\* C19: the +15 bump of the fallback never changes the risk level: it
\* applies only when there are findings and the unbumped sum is below 10,
\* the bumped score then lies in [15, 25) and is rated LOW; a fallback
\* verdict of MEDIUM or HIGH has an unbumped sum of at least 30; the level
\* is always the level of the unbumped sum.
C19_BumpKeepsLevel ==
    scanVerdict # <<>> =>
        LET res == scanOut[1]
            v == scanVerdict[1]
            score == v.riskScore
            \* the unbumped sum over the denominator 100 * hiddenRatio.den
            den == 100 * res.hiddenRatio.den
            presence == IF res.details.embeddedObjectCount > 0 THEN 1 ELSE 0
            sum == 200 * res.hiddenRatio.num
                   + 20 * presence * den
                   + 2 * res.details.entropyScore * res.hiddenRatio.den
                   + res.breakdown.metadata_score * 10 * res.hiddenRatio.den
            unbumpedLevel == IF sum >= 70 * den THEN "HIGH"
                             ELSE IF sum >= 30 * den THEN "MEDIUM" ELSE "LOW"
            bumpApplies == Len(res.findings) > 0 /\ sum < 10 * den
            \* (sum + 15) in lowest terms
            g == GCD(sum + 15 * den, den)
            capped == IF sum > 100 * den THEN 100 * den ELSE sum
            h == GCD(capped, den)
        IN  /\ bumpApplies =>
                 /\ score.num = (sum + 15 * den) \div g /\ score.den = den \div g
                 /\ 15 * score.den <= score.num
                 /\ score.num < 25 * score.den
                 /\ v.riskLevel = "LOW"
            /\ ~bumpApplies =>
                 score.num = capped \div h /\ score.den = den \div h
            /\ v.riskLevel \in {"MEDIUM", "HIGH"} => sum >= 30 * den
            /\ v.riskLevel = unbumpedLevel

\* A fallback verdict whose score was bumped.
C19_Witness ==
    /\ scanVerdict # <<>>
    /\ Len(scanOut[1].findings) > 0
    /\ RLess(RawScore(scanOut[1]), RInt(BumpBelow))
    /\ RLeq(RInt(BumpBy), scanVerdict[1].riskScore)
    /\ scanVerdict[1].riskLevel = "LOW"

(***************************************************************************)
(* Properties of findBase64Blocks (checked under SpecBase64).              *)
(***************************************************************************)
\* The text has a run of at least 40 characters of the base64 alphabet.
HasLongRun(text) ==
    \E i \in 1..Len(text) :
        /\ CharAt(text, i) \in Base64Alphabet
        /\ i = 1 \/ CharAt(text, i - 1) \notin Base64Alphabet
        /\ \A j \in i..(i + 39) : j <= Len(text) /\ CharAt(text, j) \in Base64Alphabet

\* C16: findBase64Blocks returns count 0, size 0, maxEntropy 0 for a text
\* with no run of at least 40 base64-alphabet characters, and two successive
\* calls on the same text return the same result.
C16_Base64ZeroAndIdempotent ==
    /\ \A k \in 1..Len(b64Results) :
           ~HasLongRun(b64Text)
           => b64Results[k] = [count |-> 0, size |-> 0, maxEntropy |-> 0]
    /\ \A k \in 1..Len(b64Results) : b64Results[k] = b64Results[1]

\* Two calls that both returned two blocks.
C16_Witness ==
    /\ Len(b64Results) >= 2
    /\ b64Results[1].count = 2
    /\ b64Results[2].count = 2

====
